---- MODULE Spec2Model ----
(***************************************************************************)
(* scTriangulate consensus-reconciliation engine: the ScTriangulate object *)
(* (main_class.py) with its attribution stage (compute_shapley,            *)
(* run_shapley, run_assign) and its pruning stage (prune.py).              *)
(*                                                                         *)
(* Text is a sequence of one-character strings, so that                    *)
(* name + '@' + cluster and label.split('@') are computed, not assumed.    *)
(* Attribution values are exact rationals held as the integer n! * phi,    *)
(* n the number of query labelings (one common denominator per table).     *)
(***************************************************************************)
EXTENDS Integers, Sequences, FiniteSets, Bags, TLC

VARIABLES
    query,          \* self.query: the list of labeling names
    reference,      \* self.reference
    total_metrics,  \* self.total_metrics (the same list object as self.metrics)
    size_dict,      \* self.size_dict: labeling -> cluster -> count
    invalid,        \* self.invalid, a list; empty while the attribute is unbound
    attrs,          \* which of the attributes invalid, invaild the object has
    uns,            \* self.uns: key -> what the operations read of the entry
    score,          \* self.score: labeling -> metric -> (cluster -> score)
    obs,            \* self.adata.obs: the metadata table, a sequence of rows
    celltype,       \* the file celltype.txt: its header and its data rows
    pool,           \* processes of the open mp.Pool, 0 when none is open
    pc,             \* position of the controlling thread
    tasks,          \* work units handed to the pool, in submission order
    results,        \* work unit -> the value its worker returned (once done)
    last,           \* the API call made last (pc = "idle" once it has ended)
    err             \* the exception that call ended with, "" if none

vars == <<query, reference, total_metrics, size_dict, invalid, attrs, uns, score,
          obs, celltype, pool, pc, tasks, results, last, err>>

-----------------------------------------------------------------------------
(* Bounds of the model *)

\* number of observations of a pipeline table
NObs == 3
\* largest cluster-level score a scorer returns
MaxScore == 1

\* labeling names a run may register, in registration order
KeyNames == << <<"A">>, <<"B">>, <<"C">>, <<"D">> >>
\* cluster names a labeling may use, in sorted order
ClusterOrder == << <<"0">>, <<"1">> >>
ClusterNames == {ClusterOrder[i] : i \in DOMAIN ClusterOrder}
\* metrics whose scores vary in the enumerated inputs; the others score 0
ShapVarying == {"reassign", "tfidf10"}
PipeVarying == {"reassign"}
\* the scores of a pipeline table
PipeScores == {0, 1}

\* an absent column
NA == <<>>

-----------------------------------------------------------------------------
(* Sequence helpers *)

Range(s) == {s[i] : i \in DOMAIN s}

RECURSIVE SumSeq(_)
SumSeq(s) == IF s = <<>> THEN 0 ELSE Head(s) + SumSeq(Tail(s))

RECURSIVE Concat(_)
\* pd.concat / list.extend over a list of lists
Concat(ss) == IF ss = <<>> THEN <<>> ELSE Head(ss) \o Concat(Tail(ss))

RECURSIVE Factorial(_)
Factorial(k) == IF k <= 0 THEN 1 ELSE k * Factorial(k - 1)

SetMax(S) == CHOOSE x \in S : \A y \in S : y <= x
SetMin(S) == CHOOSE x \in S : \A y \in S : x <= y

\* list.remove(x): drops the first occurrence only
RemoveFirst(s, x) ==
    IF x \notin Range(s) THEN s
    ELSE LET i == SetMin({k \in DOMAIN s : s[k] = x})
         IN SubSeq(s, 1, i - 1) \o SubSeq(s, i + 1, Len(s))

\* str.split('@')
RECURSIVE Split(_)
Split(s) ==
    IF "@" \notin Range(s) THEN <<s>>
    ELSE LET i == SetMin({k \in DOMAIN s : s[k] = "@"})
         IN <<SubSeq(s, 1, i - 1)>> \o Split(SubSeq(s, i + 1, Len(s)))

\* name + '@' + cluster
AtJoin(name, cluster) == name \o <<"@">> \o cluster

-----------------------------------------------------------------------------
(* shapley.py is not among the sources: get_size, shapley_value and        *)
(* which_to_take follow the specification's sections 2, 4.2 and 8.         *)

\* number of observations of `table` in cluster c of labeling key
ClusterCount(table, key, c) ==
    SumSeq([i \in DOMAIN table |-> IF table[i].cl[key] = c THEN table[i].n ELSE 0])

\* SizeIndex: labeling -> cluster -> number of observations
get_size(table, q) ==
    [key \in Range(q) |->
        [c \in {table[i].cl[key] : i \in DOMAIN table} |-> ClusterCount(table, key, c)]]

\* characteristic function: sum over the metrics of the coalition's best value
Coalition(S, layer) ==
    IF S = {} THEN 0
    ELSE SumSeq([m \in DOMAIN layer[1] |-> SetMax({layer[p][m] : p \in S})])

\* n! * phi(index): sum over the coalitions S without the player of
\* |S|! (n-|S|-1)! (v(S + player) - v(S))
shapley_value(index, layer) ==
    LET n == Len(layer)
        others == (1..n) \ {index}
        term(S) == Factorial(Cardinality(S)) * Factorial(n - Cardinality(S) - 1)
                   * (Coalition(S \cup {index}, layer) - Coalition(S, layer))
        RECURSIVE Total(_)
        Total(SS) == IF SS = {} THEN 0
                     ELSE LET S == CHOOSE T \in SS : TRUE
                          IN term(S) + Total(SS \ {S})
    IN Total(SUBSET others)

\* the winner: largest attribution; among exact ties the labeling whose
\* cluster has the larger count / SizeIndex size; then the first registered
which_to_take(result, q, ref, cluster_row, sizes) ==
    LET best == SetMax(Range(result))
        winners == {k \in DOMAIN result : result[k] = best}
        count(k) == ClusterCount(obs, q[k], cluster_row[k])
        size(k) == sizes[q[k]][cluster_row[k]]
        \* count(k)/size(k) >= count(j)/size(j), cross-multiplied
        top == {k \in winners :
                   \A j \in winners : count(k) * size(j) >= count(j) * size(k)}
    IN q[SetMin(top)]

-----------------------------------------------------------------------------
(* main_class.py: ancillary functions *)

\* data[:, i, :]
Layer(data, i) == [j \in DOMAIN data |-> data[j][i]]

run_shapley_first_player(table, q, ref, sizes, data) ==
    LET result(i) == [j \in DOMAIN data |-> shapley_value(1, Layer(data, i))]
        cluster_row(i) == [k \in DOMAIN q |-> table[i].cl[q[k]]]
    IN [final |-> [i \in DOMAIN table |->
                      which_to_take(result(i), q, ref, cluster_row(i), sizes)],
        intermediate |-> [i \in DOMAIN table |-> result(i)]]

run_shapley_drop_last(table, q, ref, sizes, data) ==
    LET result(i) == [j \in DOMAIN data |-> shapley_value(j, Layer(data, i))]
        cluster_row(i) == [k \in DOMAIN q |-> table[i].cl[q[k]]]
    IN [final |-> [i \in DOMAIN table |->
                      which_to_take(SubSeq(result(i), 1, Len(data) - 1), q, ref,
                                    cluster_row(i), sizes)],
        intermediate |-> [i \in DOMAIN table |-> result(i)]]

run_shapley_last_first(table, q, ref, sizes, data) ==
    LET rev(x) == [k \in DOMAIN x |-> x[Len(x) + 1 - k]]
        result(i) == [j \in DOMAIN data |-> shapley_value(j, Layer(data, i))]
        cluster_row(i) == [k \in DOMAIN q |-> table[i].cl[q[k]]]
    IN [final |-> [i \in DOMAIN table |->
                      which_to_take(rev(result(i)), rev(q), ref, rev(cluster_row(i)), sizes)],
        intermediate |-> [i \in DOMAIN table |-> result(i)]]

\* lines 1685-1698: per cell, one shapley_value per labeling, then the winner
run_shapley(table, q, ref, sizes, data) ==
    LET result(i) == [j \in DOMAIN data |-> shapley_value(j, Layer(data, i))]
        cluster_row(i) == [k \in DOMAIN q |-> table[i].cl[q[k]]]
    IN [final |-> [i \in DOMAIN table |->
                      which_to_take(result(i), q, ref, cluster_row(i), sizes)],
        intermediate |-> [i \in DOMAIN table |-> result(i)]]

run_assign_first_labeling(table) ==
    [i \in DOMAIN table |->
        [table[i] EXCEPT !.raw =
            AtJoin(table[i].final_annotation, table[i].cl[KeyNames[1]])]]

\* lines 1701-1710
run_assign(table) ==
    [i \in DOMAIN table |->
        [table[i] EXCEPT !.raw =
            AtJoin(table[i].final_annotation, table[i].cl[table[i].final_annotation])]]

\* penalize_artifact_void: every metric column of a labeling is set to 0 on
\* the rows whose cluster under that labeling is a stamp
penalize_artifact_void(table, q, stamps, metrics) ==
    [i \in DOMAIN table |->
        [table[i] EXCEPT !.met =
            [key \in DOMAIN table[i].met |->
                IF key \in Range(q) /\ AtJoin(key, table[i].cl[key]) \in Range(stamps)
                THEN [m \in DOMAIN table[i].met[key] |->
                         IF m \in Range(metrics) THEN 0 ELSE table[i].met[key][m]]
                ELSE table[i].met[key]]]]

-----------------------------------------------------------------------------
(* The metadata table.  A row stands for `n` consecutive observations that *)
(* agree on every column (n = 1: one observation); `id` is the position of *)
(* the first of them in the table the object was built with.               *)

\* obs.shape[0]
Shape0(table) == SumSeq([i \in DOMAIN table |-> table[i].n])

\* position of the first observation of row i (0-based, as np.arange)
RowStart(table, i) == SumSeq([r \in 1..(i - 1) |-> table[r].n])

Min2(a, b) == IF a < b THEN a ELSE b
Max2(a, b) == IF a > b THEN a ELSE b

\* obs.iloc[lo:hi, :] on positions lo..hi-1
ILoc(table, lo, hi) ==
    LET part(i) == Min2(RowStart(table, i) + table[i].n, hi) - Max2(RowStart(table, i), lo)
        keep == SelectSeq([i \in DOMAIN table |-> i], LAMBDA i : part(i) > 0)
    IN [k \in DOMAIN keep |->
           [table[keep[k]] EXCEPT
               !.n = part(keep[k]),
               !.id = table[keep[k]].id + Max2(RowStart(table, keep[k]), lo) - RowStart(table, keep[k]),
               !.ori = IF table[keep[k]].ori < 0 THEN table[keep[k]].ori
                       ELSE table[keep[k]].ori + Max2(RowStart(table, keep[k]), lo) - RowStart(table, keep[k])]]

\* np.array_split(np.arange(N), k): the first N % k chunks hold N \div k + 1
\* positions, the others N \div k; returned as <<lo, hi>> bounds
array_split_whole(N, k) == [j \in 1..k |-> <<0, N>>]

array_split(N, k) ==
    [j \in 1..k |->
        LET lo == (j - 1) * (N \div k) + Min2(j - 1, N % k)
        IN <<lo, lo + (N \div k) + (IF j <= N % k THEN 1 ELSE 0)>>]

\* [obs.iloc[sub_index,:] for sub_index in sub_indices]
SubObs(table, k) ==
    LET sub_indices == array_split(Shape0(table), k)
    IN [j \in 1..k |-> ILoc(table, sub_indices[j][1], sub_indices[j][2])]

\* data[i,:,:] = obs[[name + '@' + key for name in score_colname]].values
MetricData(table, q, score_colname) ==
    [i \in DOMAIN q |->
        [c \in DOMAIN table |->
            [m \in DOMAIN score_colname |-> table[c].met[q[i]][score_colname[m]]]]]

\* obs['final_annotation'] = final; obs['<key>_shapley'] = decisions[i]
WriteShapley(table, q, final, intermediate) ==
    [i \in DOMAIN table |->
        [table[i] EXCEPT
            !.final_annotation = final[i],
            !.shapley = [key \in Range(q) |->
                            intermediate[i][CHOOSE k \in DOMAIN q : q[k] = key]]]]

\* _prefixing: reference + '@' + col2[i] + '|' + col1[i]
prefixing(table, ref, col) ==
    [i \in DOMAIN table |->
        [table[i] EXCEPT !.prefixed =
            AtJoin(ref, table[i].cl[ref]) \o <<"|">> \o
            (IF col = "raw" THEN table[i].raw ELSE table[i].pruned)]]

\* sort_values(by='ori'): insertion into an ascending list
RECURSIVE SortByOri(_)
SortByOri(table) ==
    IF table = <<>> THEN <<>>
    ELSE LET rest == SortByOri(Tail(table))
             x == Head(table)
             before == SelectSeq(rest, LAMBDA r : r.ori < x.ori)
             after == SelectSeq(rest, LAMBDA r : ~(r.ori < x.ori))
         IN before \o <<x>> \o after

\* obs['ori'] = np.arange(obs.shape[0])
WithOri(table) == [i \in DOMAIN table |-> [table[i] EXCEPT !.ori = RowStart(table, i)]]

\* list(obs.groupby(by=reference)): (name, subset) per reference cluster
GroupBy(table, ref) ==
    LET present == SelectSeq(ClusterOrder,
                             LAMBDA c : \E i \in DOMAIN table : table[i].cl[ref] = c)
    IN [g \in DOMAIN present |->
           <<present[g], SelectSeq(table, LAMBDA r : r.cl[ref] = present[g])>>]

-----------------------------------------------------------------------------
(* prune.py *)

\* subset[col].value_counts(): label -> number of observations
ValueCounts(subset, col) ==
    LET lab(r) == IF col = "raw" THEN r.raw ELSE r.pruned
    IN [l \in {lab(subset[i]) : i \in DOMAIN subset} |->
           SumSeq([i \in DOMAIN subset |-> IF lab(subset[i]) = l THEN subset[i].n ELSE 0])]

\* abs_thresh = 10 if obs.shape[0] < 50000 else 30
AbsThresh(nobs) == IF nobs < 50000 THEN 10 ELSE 30

KeepByCountBelowFloor(count_cluster, total, size, abs_thresh) ==
    \/ count_cluster * 10 >= 6 * size
    \/ count_cluster * 100 >= 5 * total
    \/ count_cluster * 100 < 5 * total /\ count_cluster < abs_thresh

KeepIgnoringSelf(count_cluster, total, size, abs_thresh) ==
    \/ count_cluster * 100 >= 5 * total
    \/ count_cluster * 100 < 5 * total /\ count_cluster > abs_thresh

\* the if/elif chain of run_reference_pruning: TRUE keeps the raw cluster,
\* FALSE maps it to the reference cluster
\*   proportion_to_self = count / size >= 0.6
\*   proportion_to_ref = count / total >= 0.05
KeepRawCluster(count_cluster, total, size, abs_thresh) ==
    \/ count_cluster * 10 >= 6 * size
    \/ count_cluster * 100 >= 5 * total
    \/ count_cluster * 100 < 5 * total /\ count_cluster > abs_thresh

RefMappingAtLastGroup(chunk, ref, sizes, abs_thresh) ==
    LET vc == ValueCounts(chunk[2], "raw")
        total == SumSeq([i \in DOMAIN chunk[2] |-> chunk[2][i].n])
    IN [cluster \in DOMAIN vc |->
           IF KeepRawCluster(vc[cluster], total,
                             sizes[Split(cluster)[1]][Split(cluster)[2]], abs_thresh)
           THEN cluster
           ELSE AtJoin(ref, ClusterOrder[Len(ClusterOrder)])]

\* lines 150-168 with the floor abs_thresh given:
\* mapping = {cluster: cluster or reference + '@' + chunk[0]}
RefMappingAt(chunk, ref, sizes, abs_thresh) ==
    LET vc == ValueCounts(chunk[2], "raw")
        total == SumSeq([i \in DOMAIN chunk[2] |-> chunk[2][i].n])
    IN [cluster \in DOMAIN vc |->
           IF KeepRawCluster(vc[cluster], total,
                             sizes[Split(cluster)[1]][Split(cluster)[2]], abs_thresh)
           THEN cluster
           ELSE AtJoin(ref, chunk[1])]

RefMapping(chunk, ref, sizes, nobs) == RefMappingAt(chunk, ref, sizes, AbsThresh(nobs))

\* lines 149-169: the chunk's rows with pruned = mapping[raw]
MappedChunk(chunk, ref, sizes, table) ==
    LET mapping == RefMapping(chunk, ref, sizes, Shape0(table))
    IN [i \in DOMAIN chunk[2] |->
           [chunk[2][i] EXCEPT !.pruned = mapping[chunk[2][i].raw]]]

\* vc2.loc[vc2==vc2.max()].index: the labels with the largest count.  The
\* code takes index[0]; value_counts fixes no order among equal counts, so
\* any of these labels can come first
MostAbundant(subset) ==
    LET vc2 == ValueCounts(subset, "pruned")
        top == SetMax({vc2[l] : l \in DOMAIN vc2})
    IN {l \in DOMAIN vc2 : vc2[l] = top}

SingletonCleanupSkipped(subset, most_abundant_cluster) == subset

\* rows whose pruned label has exactly one observation take the most
\* abundant label; vc2 is taken once, before the loop
SingletonCleanup(subset, most_abundant_cluster) ==
    LET vc2 == ValueCounts(subset, "pruned")
        exclude_clusters == {l \in DOMAIN vc2 : vc2[l] = 1}
    IN [i \in DOMAIN subset |->
           IF subset[i].pruned \in exclude_clusters
           THEN [subset[i] EXCEPT !.pruned = most_abundant_cluster]
           ELSE subset[i]]

run_reference_pruning_over_raw(chunk, ref, sizes, table, most_abundant_cluster) ==
    LET subset == SingletonCleanup(MappedChunk(chunk, ref, sizes, table), most_abundant_cluster)
    IN [i \in DOMAIN subset |-> [subset[i] EXCEPT !.raw = subset[i].pruned]]

run_reference_pruning(chunk, ref, sizes, table, most_abundant_cluster) ==
    SingletonCleanup(MappedChunk(chunk, ref, sizes, table), most_abundant_cluster)

CollectUnsorted(pruned_chunks) == Concat(pruned_chunks)

\* lines 194-195: modified_obs = pd.concat(pruned_chunks); sort_values(by='ori')
CollectSorted(pruned_chunks) == SortByOri(Concat(pruned_chunks))

\* lines 29-38: the invalid list extended by the raw clusters below the floor
\* or below 5% of their SizeIndex size, then list(set(invalid))
reassign_marking(sctri_invalid, table, sizes) ==
    LET abs_thresh == AbsThresh(Shape0(table))
        vc == ValueCounts(table, "raw")
        small == {key_cluster \in DOMAIN vc :
                     \/ vc[key_cluster] < abs_thresh
                     \/ vc[key_cluster] * 100
                            < 5 * sizes[Split(key_cluster)[1]][Split(key_cluster)[2]]}
    IN SetToBag(BagToSet(sctri_invalid) \cup small)

\* `def reassign_pruning(sctri)` opens with `obs = adata.obs` (line 20); no
\* name `adata` is bound in the function or in the module: NameError, and
\* lines 21-124 do not run
reassign_pruning(sctri_obs, sctri_invalid) ==
    [exc |-> "NameError", obs |-> sctri_obs, invalid |-> sctri_invalid]

\* the parameters of reassign_pruning (line 18)
ReassignParams == {"sctri"}

\* the call skipped without an exception, pruned copied from raw
CallReassignSkipped(argnames, sctri_obs, sctri_invalid) ==
    [exc |-> "",
     obs |-> [i \in DOMAIN sctri_obs |-> [sctri_obs[i] EXCEPT !.pruned = sctri_obs[i].raw]],
     invalid |-> sctri_invalid]

\* a Python call: an argument name the function does not have is a TypeError
\* raised before the body runs
CallReassignPruning(argnames, sctri_obs, sctri_invalid) ==
    IF argnames \subseteq ReassignParams
    THEN reassign_pruning(sctri_obs, sctri_invalid)
    ELSE [exc |-> "TypeError", obs |-> sctri_obs, invalid |-> sctri_invalid]

-----------------------------------------------------------------------------
(* ScTriangulate.__init__ and the enumerated inputs *)

\* self.metrics (line 81) extended by add_new_metrics(add_metrics) (line 99)
DefaultMetrics == <<"reassign", "tfidf10", "SCCAF", "doublet", "tfidf5">>

\* cluster names used under a labeling
UsedPairs(shape, q) == {<<q[k], shape[i].cl[q[k]]>> : k \in DOMAIN q, i \in DOMAIN shape}

\* the rows of a table after compute_metrics: cluster-level scores broadcast
\* to the observations of the cluster
NewTable(shape, q, varying, sv) ==
    [i \in DOMAIN shape |->
        [id |-> RowStart(shape, i), n |-> shape[i].n, cl |-> shape[i].cl,
         met |-> [key \in Range(q) |->
                    [m \in Range(DefaultMetrics) |->
                        IF m \in varying THEN sv[<< <<key, shape[i].cl[key]>>, m >>] ELSE 0]],
         final_annotation |-> NA, shapley |-> NA, raw |-> NA, pruned |-> NA,
         prefixed |-> NA, ori |-> -1]]

NotDone == [done |-> FALSE]

\* a metric column that does not exist yet: below every value a column holds
NoColumn == -2

\* the score slot that goes with the metric columns of `table`: for each
\* labeling with metric columns, the score its clusters carry
ScoreInfo(table, q) ==
    [key \in {k \in Range(q) : \E i \in DOMAIN table :
                                  \E m \in Range(DefaultMetrics) : table[i].met[k][m] # NoColumn} |->
        [m \in Range(DefaultMetrics) |->
            [c \in {table[i].cl[key] : i \in DOMAIN table} |->
                table[CHOOSE i \in DOMAIN table : table[i].cl[key] = c].met[key][m]]]]

\* celltype.txt does not exist
NoFile == [header |-> <<>>, rows |-> <<>>]

\* the fields after construction (and after compute_metrics when `table` has
\* metric columns); `entries` is the uns slot
InitFields(q, table, entries) ==
    /\ query = q
    /\ reference = q[1]
    /\ total_metrics = DefaultMetrics
    /\ size_dict = get_size(table, q)
    /\ invalid = EmptyBag
    /\ attrs = {"invalid"}
    /\ uns = entries
    /\ score = ScoreInfo(table, q)
    /\ obs = table
    /\ celltype = NoFile
    /\ pool = 0
    /\ pc = "idle"
    /\ tasks = <<>>
    /\ results = <<>>
    /\ last = "__init__"
    /\ err = ""

\* `enriched`: the clusters whose marker genes compute_metrics found enriched
\* for the cell cycle (gsea hits > 5 and score > 0.8), in self.cluster order
InitObjectWith(q, table, enriched) == InitFields(q, table, [marker_genes |-> enriched])

InitObject(q, table) == InitObjectWith(q, table, <<>>)

\* tables of `nrows` rows over the labelings q, run lengths from `weights`
Shapes(q, nrows, clusters, weights) ==
    [1..nrows -> [cl : [Range(q) -> clusters], n : weights]]

\* `pinned` fixes the score of some (labeling, cluster) pairs.  The cluster
\* names of the labelings without a pinned score are interchangeable: the
\* cluster of the first observation is the first name.
InitTables(qs, nrows, clusters, weights, varying, scores, pinned) ==
    \E q \in qs :
      \E shape \in Shapes(q, nrows, clusters, weights) :
        \E sv \in [UsedPairs(shape, q) \X varying -> scores] :
          /\ \A t \in DOMAIN sv : t[1] \in DOMAIN pinned => sv[t] = pinned[t[1]]
          /\ \A key \in Range(q) :
                (\A c \in clusters : <<key, c>> \notin DOMAIN pinned)
                    => shape[1].cl[key] = ClusterOrder[1]
          /\ InitObject(q, NewTable(shape, q, varying, sv))

-----------------------------------------------------------------------------
(* ScTriangulate.compute_shapley *)

\* score_colname = copy.deepcopy(self.total_metrics); score_colname.remove('doublet')
ScoreColname == RemoveFirst(total_metrics, "doublet")

\* the call of op has passed its argument binding
Called(op) ==
    /\ last' = op
    /\ err' = ""

Returned(op) ==
    /\ last' = op
    /\ err' = ""

FrameDataResized ==
    /\ UNCHANGED <<query, reference, total_metrics, uns, score>>
    /\ size_dict' = [key \in DOMAIN size_dict |->
                        [c \in DOMAIN size_dict[key] |->
                            SumSeq([i \in DOMAIN obs |->
                                       IF obs[i].pruned = AtJoin(key, c) THEN obs[i].n ELSE 0])]]

FrameData == UNCHANGED <<query, reference, total_metrics, size_dict, uns, score>>
FrameObj == FrameData /\ UNCHANGED celltype
Frame == FrameObj /\ UNCHANGED attrs

\* lines 679-712: the table compute_shapley(parallel=False) leaves
SequentialAttribution(table) ==
    LET data == MetricData(table, query, ScoreColname)
        collect == run_shapley(table, query, reference, size_dict, data)
        written == WriteShapley(table, query, collect.final, collect.intermediate)
    IN prefixing(run_assign(written), reference, "raw")

\* parallel=False: lines 678-712
ComputeShapleySeq ==
    /\ pc = "idle"
    /\ obs' = SequentialAttribution(obs)
    /\ Returned("compute_shapley")
    /\ Frame
    /\ UNCHANGED <<invalid, pool, pc, tasks, results>>

\* parallel=True, lines 625-648: the table and the metric data are split on
\* the cell axis and one run_shapley call per chunk is handed to the pool
ComputeShapleyDispatch(k) ==
    /\ pc = "idle"
    /\ LET sub_obs == SubObs(obs, k)
       IN tasks' = [i \in 1..k |->
                       [obs |-> sub_obs[i],
                        data |-> MetricData(sub_obs[i], query, ScoreColname)]]
    /\ results' = [i \in 1..k |-> NotDone]
    /\ pool' = k
    /\ pc' = "shapley"
    /\ Called("compute_shapley")
    /\ Frame
    /\ UNCHANGED <<invalid, obs>>

\* a pool worker finishes run_shapley on its chunk
WorkerShapley(i) ==
    /\ pc = "shapley"
    /\ i \in DOMAIN tasks
    /\ ~results[i].done
    /\ results' = [results EXCEPT ![i] =
                      [done |-> TRUE,
                       val |-> run_shapley(tasks[i].obs, query, reference, size_dict,
                                           tasks[i].data)]]
    /\ Frame
    /\ UNCHANGED <<invalid, obs, pool, pc, tasks, last, err>>

AllDone == \A i \in DOMAIN results : results[i].done

\* final.extend(collect[0]); intermediate.extend(collect[1]) over raw_results
GatherShapleyReversed(rs) ==
    [final |-> Concat([i \in DOMAIN rs |-> rs[Len(rs) + 1 - i].val.final]),
     intermediate |-> Concat([i \in DOMAIN rs |-> rs[Len(rs) + 1 - i].val.intermediate])]

GatherShapley(rs) ==
    [final |-> Concat([i \in DOMAIN rs |-> rs[i].val.final]),
     intermediate |-> Concat([i \in DOMAIN rs |-> rs[i].val.intermediate])]

\* lines 649-668: after pool.join() the results are read in submission
\* order and written to the table, which is split again for run_assign
CollectShapley ==
    /\ pc = "shapley"
    /\ AllDone
    /\ LET got == GatherShapley(results)
           written == WriteShapley(obs, query, got.final, got.intermediate)
           sub_obs == SubObs(written, Len(tasks))
       IN /\ obs' = written
          /\ tasks' = [i \in DOMAIN tasks |-> [obs |-> sub_obs[i]]]
    /\ results' = [i \in DOMAIN tasks |-> NotDone]
    /\ pc' = "assign"
    /\ Frame
    /\ UNCHANGED <<invalid, pool, last, err>>

WorkerAssignWriting(i) ==
    /\ pc = "assign"
    /\ i \in DOMAIN tasks
    /\ ~results[i].done
    /\ LET val == run_assign(tasks[i].obs)
       IN /\ results' = [results EXCEPT ![i] = [done |-> TRUE, val |-> val]]
          /\ obs' = [r \in DOMAIN obs |->
                        IF \E j \in DOMAIN val : val[j].id = obs[r].id
                        THEN val[CHOOSE j \in DOMAIN val : val[j].id = obs[r].id]
                        ELSE obs[r]]
    /\ Frame
    /\ UNCHANGED <<invalid, pool, pc, tasks, last, err>>

WorkerAssign(i) ==
    /\ pc = "assign"
    /\ i \in DOMAIN tasks
    /\ ~results[i].done
    /\ results' = [results EXCEPT ![i] =
                      [done |-> TRUE, val |-> run_assign(tasks[i].obs)]]
    /\ Frame
    /\ UNCHANGED <<invalid, obs, pool, pc, tasks, last, err>>

\* results = r.get(); obs = pd.concat(results)
GatherTables(rs) == Concat([i \in DOMAIN rs |-> rs[i].val])

\* lines 669-676
CollectAssign ==
    /\ pc = "assign"
    /\ AllDone
    /\ obs' = prefixing(GatherTables(results), reference, "raw")
    /\ tasks' = <<>>
    /\ results' = <<>>
    /\ pool' = 0
    /\ pc' = "idle"
    /\ Returned("compute_shapley")
    /\ Frame
    /\ UNCHANGED invalid

-----------------------------------------------------------------------------
(* ScTriangulate.add_to_invalid, penalize_artifact *)

\* a Python list as the bag of its elements
ListBag(stamps) ==
    [x \in Range(stamps) |-> Cardinality({i \in DOMAIN stamps : stamps[i] = x})]

add_to_invalid_replacing(current, stamps) == SetToBag(Range(stamps))

\* self.invalid.extend(invalid), on a fresh list when the attribute is
\* unbound; then self.invalid = list(set(self.invalid))
add_to_invalid(current, stamps) == SetToBag(BagToSet(current (+) ListBag(stamps)))

\* the stamps a caller passes: the second cluster of one query labeling
StampLists == {<<AtJoin(query[k], ClusterOrder[2])>> : k \in DOMAIN query}

\* mode='void', parallel=False: lines 510-511, 529-530
PenalizeVoidSeq(stamps) ==
    /\ pc = "idle"
    /\ invalid' = add_to_invalid(invalid, stamps)
    /\ attrs' = attrs \cup {"invalid"}
    /\ obs' = penalize_artifact_void(obs, query, stamps, total_metrics)
    /\ Returned("penalize_artifact")
    /\ FrameObj
    /\ UNCHANGED <<pool, pc, tasks, results>>

\* mode='void', parallel=True: lines 510-519
PenalizeVoidDispatch(stamps, k) ==
    /\ pc = "idle"
    /\ invalid' = add_to_invalid(invalid, stamps)
    /\ LET sub_obs == SubObs(obs, k)
       IN tasks' = [i \in 1..k |-> [obs |-> sub_obs[i], stamps |-> stamps]]
    /\ results' = [i \in 1..k |-> NotDone]
    /\ pool' = k
    /\ attrs' = attrs \cup {"invalid"}
    /\ pc' = "penalize"
    /\ Called("penalize_artifact")
    /\ FrameObj
    /\ UNCHANGED obs

WorkerPenalize(i) ==
    /\ pc = "penalize"
    /\ i \in DOMAIN tasks
    /\ ~results[i].done
    /\ results' = [results EXCEPT ![i] =
                      [done |-> TRUE,
                       val |-> penalize_artifact_void(tasks[i].obs, query,
                                                      tasks[i].stamps, total_metrics)]]
    /\ Frame
    /\ UNCHANGED <<invalid, obs, pool, pc, tasks, last, err>>

\* lines 520-527
CollectPenalize ==
    /\ pc = "penalize"
    /\ AllDone
    /\ obs' = GatherTables(results)
    /\ tasks' = <<>>
    /\ results' = <<>>
    /\ pool' = 0
    /\ pc' = "idle"
    /\ Returned("penalize_artifact")
    /\ Frame
    /\ UNCHANGED invalid

-----------------------------------------------------------------------------
(* prune.reference_pruning and ScTriangulate.pruning *)

Attributed == \A i \in DOMAIN obs : obs[i].shapley # NA
HasRaw(table) == \A i \in DOMAIN table : table[i].raw # NA
HasPruned(table) == \A i \in DOMAIN table : table[i].pruned # NA

\* grouped_df['pruned'].unique(): the labels in order of first appearance
RECURSIVE Unique(_)
Unique(labels) ==
    IF labels = <<>> THEN <<>>
    ELSE <<Head(labels)>> \o SelectSeq(Unique(Tail(labels)), LAMBDA l : l # Head(labels))

\* lines 746-753: the header line, then per reference cluster and per pruned
\* label of its observations the line '{}\t{}\n'.format(reference@ref, label)
CelltypeSheet(table, ref) ==
    LET groups == GroupBy(table, ref)
        unique(g) == Unique([i \in DOMAIN groups[g][2] |-> groups[g][2][i].pruned])
    IN [header |-> <<"reference", "cell_cluster", "choice">>,
        rows |-> Concat([g \in DOMAIN groups |->
                            [u \in DOMAIN unique(g) |->
                                <<AtJoin(ref, groups[g][1]), unique(g)[u]>>]])]

\* pruning(method='reference', parallel=True) up to the dispatch of
\* reference_pruning (prune.py lines 182-190): one work unit per reference
\* cluster, on a table that has the raw column
PruningReferenceDispatch(k) ==
    /\ pc = "idle"
    /\ HasRaw(obs)
    /\ obs' = WithOri(obs)
    /\ tasks' = GroupBy(obs', reference)
    /\ results' = [i \in DOMAIN tasks' |-> NotDone]
    /\ pool' = Min2(Len(tasks'), k)
    /\ pc' = "reference"
    /\ Frame
    /\ Called("pruning_reference")
    /\ UNCHANGED invalid

\* a worker finishes run_reference_pruning on its reference group
WorkerReference(i) ==
    /\ pc = "reference"
    /\ i \in DOMAIN tasks
    /\ ~results[i].done
    /\ \E most_abundant_cluster \in
             MostAbundant(MappedChunk(tasks[i], reference, size_dict, obs)) :
          results' = [results EXCEPT ![i] =
                         [done |-> TRUE,
                          val |-> run_reference_pruning(tasks[i], reference, size_dict,
                                                        obs, most_abundant_cluster)]]
    /\ Frame
    /\ UNCHANGED <<invalid, obs, pool, pc, tasks, last, err>>

\* prune.py lines 191-196, then main_class.py lines 731 and 744
CollectReference ==
    /\ pc = "reference"
    /\ AllDone
    /\ obs' = prefixing(CollectSorted([i \in DOMAIN results |-> results[i].val]),
                        reference, "pruned")
    /\ celltype' = CelltypeSheet(obs', reference)
    /\ tasks' = <<>>
    /\ results' = <<>>
    /\ pool' = 0
    /\ pc' = "idle"
    /\ Returned("pruning_reference")
    /\ FrameData
    /\ UNCHANGED <<attrs, invalid>>

\* pruning(method='reassign', parallel=True), line 734: the call passes
\* abs_thresh, remove1 and reference to a function that takes sctri alone
PruningReassign ==
    /\ pc = "idle"
    /\ HasRaw(obs)
    /\ LET call == CallReassignPruning({"sctri", "abs_thresh", "remove1", "reference"},
                                       obs, invalid)
       IN /\ err' = call.exc
          /\ obs' = IF call.exc = "" THEN prefixing(call.obs, reference, "pruned") ELSE obs
          /\ invalid' = IF call.exc = "" THEN call.invalid ELSE invalid
          /\ celltype' = IF call.exc = "" THEN CelltypeSheet(obs', reference) ELSE celltype
    /\ last' = "pruning_reassign"
    /\ FrameData
    /\ UNCHANGED attrs
    /\ UNCHANGED <<pool, pc, tasks, results>>

\* pruning(parallel=False): no method runs, line 744 prefixes the pruned
\* column and lines 746-753 write the file
PruningSequential ==
    /\ pc = "idle"
    /\ HasRaw(obs)
    /\ IF HasPruned(obs)
       THEN /\ obs' = prefixing(obs, reference, "pruned")
            /\ celltype' = CelltypeSheet(obs', reference)
            /\ err' = ""
       ELSE /\ obs' = obs
            /\ celltype' = celltype
            /\ err' = "KeyError"
    /\ last' = "pruning_sequential"
    /\ FrameData
    /\ UNCHANGED attrs
    /\ UNCHANGED <<invalid, pool, pc, tasks, results>>

-----------------------------------------------------------------------------
(* The pipeline on tables of NObs observations under two labelings *)

\* mp.cpu_count() of the host: 1, 2, one core per observation, or one more
CoreChoices == {1, 2, Shape0(obs), Shape0(obs) + 1}

\* the scorers' values for the reference labeling A; those of B vary
PipePinned == (<<KeyNames[1], ClusterOrder[1]>> :> 0) @@ (<<KeyNames[1], ClusterOrder[2]>> :> 1)

Init ==
    InitTables({SubSeq(KeyNames, 1, 2)}, NObs, ClusterNames, {1}, PipeVarying, PipeScores,
               PipePinned)

\* the calls come in the order of the pipeline: penalize_artifact at most
\* once and before compute_shapley, compute_shapley once, then pruning calls
Next ==
    \/ ~Attributed /\ ComputeShapleySeq
    \/ ~Attributed /\ \E k \in CoreChoices : ComputeShapleyDispatch(k)
    \/ \E i \in DOMAIN tasks : WorkerShapley(i)
    \/ CollectShapley
    \/ \E i \in DOMAIN tasks : WorkerAssign(i)
    \/ CollectAssign
    \/ ~Attributed /\ invalid = EmptyBag /\ \E stamps \in StampLists : PenalizeVoidSeq(stamps)
    \/ ~Attributed /\ invalid = EmptyBag
         /\ \E stamps \in StampLists : \E k \in CoreChoices : PenalizeVoidDispatch(stamps, k)
    \/ \E i \in DOMAIN tasks : WorkerPenalize(i)
    \/ CollectPenalize
    \/ \E k \in CoreChoices : PruningReferenceDispatch(k)
    \/ \E i \in DOMAIN tasks : WorkerReference(i)
    \/ CollectReference
    \/ PruningReassign
    \/ PruningSequential

Spec == Init /\ [][Next]_vars

-----------------------------------------------------------------------------
(* Pruning of tables whose rows stand for blocks of observations *)

\* prune.reassign_pruning(sctri) called as the function is declared
ReassignPruningDirect ==
    /\ pc = "idle"
    /\ HasRaw(obs)
    /\ LET call == CallReassignPruning({"sctri"}, obs, invalid)
       IN /\ err' = call.exc
          /\ obs' = IF call.exc = "" THEN call.obs ELSE obs
          /\ invalid' = IF call.exc = "" THEN call.invalid ELSE invalid
    /\ last' = "reassign_pruning"
    /\ Frame
    /\ UNCHANGED <<pool, pc, tasks, results>>

\* block lengths: the first block 1 or 230 observations, the others 1 or 11
BlockShapes(q) ==
    {shape \in Shapes(q, NObs, ClusterNames, {1, 11, 230}) :
        /\ shape[1].n \in {1, 230}
        /\ \A i \in DOMAIN shape : i > 1 => shape[i].n \in {1, 11}}

InitPrune ==
    \E shape \in BlockShapes(SubSeq(KeyNames, 1, 2)) :
      \E sv \in [UsedPairs(shape, SubSeq(KeyNames, 1, 2)) \X PipeVarying -> PipeScores] :
        /\ \A t \in DOMAIN sv : t[1] \in DOMAIN PipePinned => sv[t] = PipePinned[t[1]]
        /\ shape[1].cl[KeyNames[2]] = ClusterOrder[1]
        /\ InitObject(SubSeq(KeyNames, 1, 2),
                      NewTable(shape, SubSeq(KeyNames, 1, 2), PipeVarying, sv))

\* a script ends at its first unhandled exception
NextPrune ==
    \/ ~Attributed /\ ComputeShapleySeq
    \/ err = "" /\ \E k \in CoreChoices : PruningReferenceDispatch(k)
    \/ \E i \in DOMAIN tasks : WorkerReference(i)
    \/ CollectReference
    \/ err = "" /\ PruningReassign
    \/ err = "" /\ PruningSequential
    \/ err = "" /\ ReassignPruningDirect

SpecPrune == InitPrune /\ [][NextPrune]_vars

-----------------------------------------------------------------------------
(* The invalid list *)

\* longest invalid list the model lets the cell cycle mode build
MaxInvalid == 4

\* ScTriangulate.add_to_invalid(invalid), lines 299-307
AddToInvalid(stamps) ==
    /\ pc = "idle"
    /\ invalid' = add_to_invalid(invalid, stamps)
    /\ attrs' = attrs \cup {"invalid"}
    /\ Returned("add_to_invalid")
    /\ FrameObj
    /\ UNCHANGED <<obs, pool, pc, tasks, results>>

\* ScTriangulate.add_to_invalid_by_win_fraction, lines 309-312: reads
\* self.uns['raw_cluster_goodness'], an entry only line 741 writes
AddToInvalidByWinFraction ==
    /\ pc = "idle"
    /\ IF "raw_cluster_goodness" \in DOMAIN uns
       THEN /\ invalid' = add_to_invalid(invalid, uns.raw_cluster_goodness)
            /\ attrs' = attrs \cup {"invalid"}
            /\ err' = ""
       ELSE /\ err' = "KeyError"
            /\ UNCHANGED <<invalid, attrs>>
    /\ last' = "add_to_invalid_by_win_fraction"
    /\ FrameObj
    /\ UNCHANGED <<obs, pool, pc, tasks, results>>

\* penalize_artifact(mode='cellcycle', parallel=False), lines 532-544 and
\* 561-563: the enriched clusters are appended by self.invalid.extend(stamps)
PenalizeCellcycleSeq ==
    /\ pc = "idle"
    /\ BagCardinality(invalid) + Len(uns.marker_genes) <= MaxInvalid
    /\ IF "invalid" \in attrs
       THEN /\ invalid' = invalid (+) ListBag(uns.marker_genes)
            /\ obs' = penalize_artifact_void(obs, query, uns.marker_genes, total_metrics)
            /\ err' = ""
       ELSE /\ err' = "AttributeError"
            /\ UNCHANGED <<invalid, obs>>
    /\ last' = "penalize_artifact_cellcycle"
    /\ Frame
    /\ UNCHANGED <<pool, pc, tasks, results>>

\* ScTriangulate.clear_invalid, lines 314-316: del self.invalid, then the
\* empty list is bound to self.invaild
ClearInvalid ==
    /\ pc = "idle"
    /\ IF "invalid" \in attrs
       THEN /\ attrs' = (attrs \ {"invalid"}) \cup {"invaild"}
            /\ invalid' = EmptyBag
            /\ err' = ""
       ELSE /\ err' = "AttributeError"
            /\ UNCHANGED <<invalid, attrs>>
    /\ last' = "clear_invalid"
    /\ FrameObj
    /\ UNCHANGED <<obs, pool, pc, tasks, results>>

\* ScTriangulate.__str__, lines 102-106: formats self.invalid
StrObject ==
    /\ pc = "idle"
    /\ err' = IF "invalid" \in attrs THEN "" ELSE "AttributeError"
    /\ last' = "__str__"
    /\ Frame
    /\ UNCHANGED <<invalid, obs, pool, pc, tasks, results>>

\* two observations in different clusters of both labelings
InvalidShape ==
    [i \in 1..2 |-> [cl |-> [key \in Range(SubSeq(KeyNames, 1, 2)) |-> ClusterOrder[i]],
                     n |-> 1]]

\* the enriched clusters: none, the second cluster of one or of both labelings
EnrichedChoices ==
    {<<>>, <<AtJoin(KeyNames[1], ClusterOrder[2])>>, <<AtJoin(KeyNames[2], ClusterOrder[2])>>,
     <<AtJoin(KeyNames[1], ClusterOrder[2]), AtJoin(KeyNames[2], ClusterOrder[2])>>}

InitInvalid ==
    \E enriched \in EnrichedChoices :
      \E sv \in [UsedPairs(InvalidShape, SubSeq(KeyNames, 1, 2)) \X PipeVarying -> PipeScores] :
        /\ \A t \in DOMAIN sv : t[1] \in DOMAIN PipePinned => sv[t] = PipePinned[t[1]]
        /\ InitObjectWith(SubSeq(KeyNames, 1, 2),
                          NewTable(InvalidShape, SubSeq(KeyNames, 1, 2), PipeVarying, sv),
                          enriched)

NextInvalid ==
    \/ \E stamps \in StampLists \cup {s \o s : s \in StampLists} : AddToInvalid(stamps)
    \/ AddToInvalidByWinFraction
    \/ \E stamps \in StampLists : PenalizeVoidSeq(stamps)
    \/ PenalizeCellcycleSeq
    \/ ClearInvalid
    \/ StrObject
    \/ ~Attributed /\ ComputeShapleySeq
    \/ HasRaw(obs) /\ PruningReassign

SpecInvalid == InitInvalid /\ [][NextInvalid]_vars

-----------------------------------------------------------------------------
(* ScTriangulate.compute_metrics *)

\* the clusters of labeling key that keep more than one observation: the
\* others are removed from the matrix handed to the scorers
check_filter_single_cluster(table, key) ==
    {c \in {table[i].cl[key] : i \in DOMAIN table} :
        SumSeq([i \in DOMAIN table |-> IF table[i].cl[key] = c THEN table[i].n ELSE 0]) > 1}

\* the exception a scorer raises
ScorerError == "ScorerError"

\* what reassign_score can do on a matrix with the given clusters: raise, or
\* return a score for some of them
ScorerOutcomes(clusters) ==
    {[exc |-> ScorerError, val |-> <<>>]} \cup
        {[exc |-> "", val |-> f] : f \in UNION {[D -> PipeScores] : D \in SUBSET clusters}}

\* lines 1627-1682.  `outcome` is what reassign_score does for this labeling;
\* the other scorers return 0 for every cluster of the filtered matrix.  No
\* statement of the function handles an exception of a scorer.
each_key_run(table, key, metrics, outcome) ==
    LET adata_to_compute == check_filter_single_cluster(table, key)
        cluster_to_metric ==
            [m \in Range(metrics) |->
                IF m \in PipeVarying THEN outcome.val ELSE [c \in adata_to_compute |-> 0]]
        \* adata.obs[key].map(cluster_to_metric[...]).fillna(0)
        col(m) == [i \in DOMAIN table |->
                      IF table[i].cl[key] \in DOMAIN cluster_to_metric[m]
                      THEN cluster_to_metric[m][table[i].cl[key]]
                      ELSE 0]
    IN IF outcome.exc # ""
       THEN [exc |-> outcome.exc, key |-> key, col |-> <<>>, score_info |-> <<>>]
       ELSE [exc |-> "", key |-> key, col |-> [m \in Range(metrics) |-> col(m)],
             score_info |-> cluster_to_metric]

\* self.adata.obs['<metric>@<key>'] = collect['col_<metric>'] for each metric
WriteMetrics(table, collect) ==
    [i \in DOMAIN table |->
        [table[i] EXCEPT !.met[collect.key] =
            [m \in DOMAIN collect.col |-> collect.col[m][i]]]]

\* lines 458-468 and 474-484: the collects are stored labeling by labeling,
\* in query order; the call ends at the first one that holds an exception
\* (collect.get() re-raises it, each_key_run raises it in the sequential loop)
RECURSIVE StoreCollected(_, _, _)
StoreCollected(collects, table, sc) ==
    IF collects = <<>> THEN [obs |-> table, score |-> sc, exc |-> ""]
    ELSE IF Head(collects).exc # "" THEN [obs |-> table, score |-> sc, exc |-> Head(collects).exc]
    ELSE StoreCollected(Tail(collects), WriteMetrics(table, Head(collects)),
                        (Head(collects).key :> Head(collects).score_info) @@ sc)

\* self._add_to_uns('marker_genes', key, collect) for the stored labelings;
\* no cluster's marker genes are enriched for the cell cycle
StoredUns(entries, sc) == IF DOMAIN sc = {} THEN entries ELSE [marker_genes |-> <<>>]

\* what reassign_score does for each labeling of q
OutcomeChoices(table, q) ==
    {f \in [Range(q) -> ScorerOutcomes(ClusterNames)] :
        \A key \in Range(q) : DOMAIN f[key].val \subseteq check_filter_single_cluster(table, key)}

\* parallel=False: lines 472-487
ComputeMetricsSeq ==
    /\ pc = "idle"
    /\ \E outcome \in OutcomeChoices(obs, query) :
         LET collects == [k \in DOMAIN query |->
                             each_key_run(obs, query[k], total_metrics, outcome[query[k]])]
             stored == StoreCollected(collects, obs, score)
         IN /\ obs' = stored.obs
            /\ score' = stored.score
            /\ uns' = StoredUns(uns, stored.score)
            /\ err' = stored.exc
    /\ last' = "compute_metrics"
    /\ UNCHANGED <<query, reference, total_metrics, size_dict, invalid, attrs, celltype,
                   pool, pc, tasks, results>>

\* parallel=True, lines 449-457: one each_key_run call per query labeling on
\* min(len(self.query), mp.cpu_count()) processes
ComputeMetricsDispatch(cpu_count) ==
    /\ pc = "idle"
    /\ tasks' = [k \in DOMAIN query |-> [key |-> query[k]]]
    /\ results' = [k \in DOMAIN query |-> NotDone]
    /\ pool' = Min2(Len(query), cpu_count)
    /\ pc' = "metrics"
    /\ Called("compute_metrics")
    /\ Frame
    /\ UNCHANGED <<invalid, obs>>

\* a pool worker finishes each_key_run on its labeling, or ends it with the
\* scorer's exception, which the result object keeps
WorkerMetrics(i) ==
    /\ pc = "metrics"
    /\ i \in DOMAIN tasks
    /\ ~results[i].done
    /\ \E outcome \in ScorerOutcomes(check_filter_single_cluster(obs, tasks[i].key)) :
         results' = [results EXCEPT ![i] =
                        [done |-> TRUE,
                         val |-> each_key_run(obs, tasks[i].key, total_metrics, outcome)]]
    /\ Frame
    /\ UNCHANGED <<invalid, obs, pool, pc, tasks, last, err>>

\* lines 458-471, after pool.join()
CollectMetrics ==
    /\ pc = "metrics"
    /\ AllDone
    /\ LET stored == StoreCollected([i \in DOMAIN results |-> results[i].val], obs, score)
       IN /\ obs' = stored.obs
          /\ score' = stored.score
          /\ uns' = StoredUns(uns, stored.score)
          /\ err' = stored.exc
    /\ tasks' = <<>>
    /\ results' = <<>>
    /\ pc' = "idle"
    /\ pool' = 0
    /\ UNCHANGED <<query, reference, total_metrics, size_dict, invalid, attrs, celltype, last>>

\* the (labeling, cluster) pairs that carry a score of metric m in the score
\* slot: the rows that survive dropna in the frame of lines 577-580
Scored(sc, m) == {t \in (DOMAIN sc) \X ClusterNames : t[2] \in DOMAIN sc[t[1]][m]}

\* what regress_size returns for the scored pairs of the varying metric: a
\* value of the score range for each; on a column of zeros it returns zeros
RegressChoices(sc) == UNION {[Scored(sc, m) -> PipeScores] : m \in PipeVarying}

\* lines 569-616.  Per metric the scores of all labelings are regressed
\* together; a cluster of the table without a score (metric NaN after the
\* concat with the sizes) gets the smallest regressed value minus 1; the
\* score slot is replaced and mapped back to the metric columns.
regress_out_size_effect(table, sc, metrics, regressed) ==
    LET value(m, t) == IF m \in PipeVarying THEN regressed[t] ELSE 0
        df_na(m) == SetMin({value(m, t) : t \in Scored(sc, m)}) - 1
        restore_score ==
            [key \in DOMAIN sc |->
                [m \in Range(metrics) |->
                    [c \in {table[i].cl[key] : i \in DOMAIN table} |->
                        IF <<key, c>> \in Scored(sc, m) THEN value(m, <<key, c>>)
                        ELSE df_na(m)]]]
    IN IF \E m \in Range(metrics) : Scored(sc, m) = {}
       THEN [exc |-> "ValueError", score |-> sc, obs |-> table]
       ELSE [exc |-> "", score |-> restore_score,
             obs |-> [i \in DOMAIN table |->
                        [table[i] EXCEPT !.met =
                            [key \in DOMAIN table[i].met |->
                                IF key \in DOMAIN sc
                                THEN [m \in Range(metrics) |->
                                         restore_score[key][m][table[i].cl[key]]]
                                ELSE table[i].met[key]]]]]

\* sctri.regress_out_size_effect()
RegressOutSizeEffect ==
    /\ pc = "idle"
    /\ \E regressed \in RegressChoices(score) :
         LET call == regress_out_size_effect(obs, score, total_metrics, regressed)
         IN /\ obs' = call.obs
            /\ score' = call.score
            /\ err' = call.exc
    /\ last' = "regress_out_size_effect"
    /\ UNCHANGED <<query, reference, total_metrics, size_dict, invalid, attrs, uns,
                   celltype, pool, pc, tasks, results>>

\* every labeling has its metric columns
MetricsReady == \A i \in DOMAIN obs : \A key \in Range(query) :
                   \A m \in Range(total_metrics) : obs[i].met[key][m] # NoColumn

\* a table after construction: the labelings, no metric column
BareTable(shape, q) ==
    [i \in DOMAIN shape |->
        [id |-> RowStart(shape, i), n |-> shape[i].n, cl |-> shape[i].cl,
         met |-> [key \in Range(q) |-> [m \in Range(DefaultMetrics) |-> NoColumn]],
         final_annotation |-> NA, shapley |-> NA, raw |-> NA, pruned |-> NA,
         prefixed |-> NA, ori |-> -1]]

\* no entry in self.uns
NoEntries == [name \in {} |-> <<>>]

\* the object right after construction; the cluster of the first observation
\* is the first cluster name
InitMetrics ==
    \E shape \in Shapes(SubSeq(KeyNames, 1, 2), NObs, ClusterNames, {1}) :
        /\ \A key \in Range(SubSeq(KeyNames, 1, 2)) : shape[1].cl[key] = ClusterOrder[1]
        /\ InitFields(SubSeq(KeyNames, 1, 2), BareTable(shape, SubSeq(KeyNames, 1, 2)), NoEntries)

\* the calls come in the order of the pipeline: compute_metrics, then
\* regress_out_size_effect at most once, then compute_shapley; a script ends
\* at its first unhandled exception
NextMetrics ==
    \/ err = "" /\ last \in {"__init__", "compute_metrics"} /\ ComputeMetricsSeq
    \/ err = "" /\ last \in {"__init__", "compute_metrics"}
         /\ \E cpu_count \in CoreChoices : ComputeMetricsDispatch(cpu_count)
    \/ \E i \in DOMAIN tasks : WorkerMetrics(i)
    \/ CollectMetrics
    \/ err = "" /\ last = "compute_metrics" /\ MetricsReady /\ RegressOutSizeEffect
    \/ err = "" /\ ~Attributed /\ MetricsReady /\ ComputeShapleySeq

SpecMetrics == InitMetrics /\ [][NextMetrics]_vars

-----------------------------------------------------------------------------
(* The whole pipeline, from the object after construction *)

\* reassign_score returns a score for every cluster of the filtered matrix,
\* the pinned score where one is pinned
ScorersAsPinned(sc, table) ==
    \A key \in DOMAIN sc :
        /\ DOMAIN sc[key]["reassign"] = check_filter_single_cluster(table, key)
        /\ \A c \in DOMAIN sc[key]["reassign"] :
              <<key, c>> \in DOMAIN PipePinned => sc[key]["reassign"][c] = PipePinned[<<key, c>>]

\* compute_metrics once, penalize_artifact at most once and before
\* compute_shapley, compute_shapley once, then pruning calls and changes of
\* the invalid list; a script ends at its first unhandled exception
NextAll ==
    \/ last = "__init__" /\ ComputeMetricsSeq /\ err' = "" /\ ScorersAsPinned(score', obs)
    \/ last = "__init__" /\ \E cpu_count \in CoreChoices : ComputeMetricsDispatch(cpu_count)
    \/ \E i \in DOMAIN tasks :
          /\ WorkerMetrics(i)
          /\ results'[i].val.exc = ""
                => ScorersAsPinned(tasks[i].key :> results'[i].val.score_info, obs)
    \/ CollectMetrics
    \/ err = "" /\ MetricsReady /\ ~Attributed /\ ComputeShapleySeq
    \/ err = "" /\ MetricsReady /\ ~Attributed
         /\ \E k \in CoreChoices : ComputeShapleyDispatch(k)
    \/ \E i \in DOMAIN tasks : WorkerShapley(i)
    \/ CollectShapley
    \/ \E i \in DOMAIN tasks : WorkerAssign(i)
    \/ CollectAssign
    \/ err = "" /\ MetricsReady /\ ~Attributed /\ invalid = EmptyBag
         /\ \E stamps \in StampLists : PenalizeVoidSeq(stamps)
    \/ err = "" /\ MetricsReady /\ ~Attributed /\ invalid = EmptyBag
         /\ \E stamps \in StampLists : \E k \in CoreChoices : PenalizeVoidDispatch(stamps, k)
    \/ \E i \in DOMAIN tasks : WorkerPenalize(i)
    \/ CollectPenalize
    \/ err = "" /\ \E k \in CoreChoices : PruningReferenceDispatch(k)
    \/ \E i \in DOMAIN tasks : WorkerReference(i)
    \/ CollectReference
    \/ err = "" /\ PruningReassign
    \/ err = "" /\ PruningSequential
    \/ err = "" /\ HasPruned(obs) /\ \E stamps \in StampLists : AddToInvalid(stamps)
    \/ err = "" /\ HasPruned(obs) /\ ClearInvalid

SpecAll == InitMetrics /\ [][NextAll]_vars

-----------------------------------------------------------------------------
(* The metric registry *)

\* longest total_metrics list of the enumerated runs
MaxMetrics == 9

\* self.total_metrics = self.metrics (line 83): one list under two names
self_metrics == total_metrics

\* the four names the built-in list is created with (line 81)
BuiltinMetrics == <<"reassign", "tfidf10", "SCCAF", "doublet">>

\* the keys of self.add_metrics in insertion order: every key was appended to
\* total_metrics by the call that registered it
AddMetricsKeys(total) == Unique(SubSeq(total, Len(BuiltinMetrics) + 1, Len(total)))

\* the name lists a caller registers
NewMetricNames == {<<"tfidf5">>, <<"custom">>, <<"tfidf5", "custom">>, <<"custom", "tfidf5">>}

\* lines 330-333: each name is stored in self.add_metrics, then all keys of
\* self.add_metrics are appended to total_metrics
add_new_metrics(total, names) ==
    total \o Unique(AddMetricsKeys(total) \o names)

AddNewMetrics(names) ==
    /\ pc = "idle"
    /\ Len(add_new_metrics(total_metrics, names)) <= MaxMetrics
    /\ total_metrics' = add_new_metrics(total_metrics, names)
    /\ Returned("add_new_metrics")
    /\ UNCHANGED <<query, reference, size_dict, invalid, attrs, uns, score, obs, celltype,
                   pool, pc, tasks, results>>

NextRegistry == \E names \in NewMetricNames : AddNewMetrics(names)

SpecRegistry == InitMetrics /\ [][NextRegistry]_vars

-----------------------------------------------------------------------------
(* Attribution of one observation under 2, 3 or 4 labelings *)

QueryLists == {SubSeq(KeyNames, 1, n) : n \in {2, 3, 4}}

InitShap ==
    InitTables(QueryLists, 1, {ClusterOrder[1]}, {1}, ShapVarying, 0..MaxScore, <<>>)

NextShap == ComputeShapleySeq

SpecShap == InitShap /\ [][NextShap]_vars

-----------------------------------------------------------------------------
(* Properties of the attribution stage *)

HasShapley(r) == r.shapley # NA

\* the metric vector of row r under labeling key, in score-column order
MetricVector(r, key) == [m \in DOMAIN ScoreColname |-> r.met[key][ScoreColname[m]]]

\* v(all labelings) for row r: per metric the best value over the labelings
FullCoalitionValue(r) ==
    SumSeq([m \in DOMAIN ScoreColname |->
               SetMax({MetricVector(r, query[k])[m] : k \in DOMAIN query})])

AttributionSum(r) == SumSeq([k \in DOMAIN query |-> r.shapley[query[k]]])

\* C1: Shapley efficiency. For every observation with attribution columns, the
\* attribution values of the n labelings (held as n! * phi) add up to n! times
\* the characteristic-function value of the coalition of all n labelings.
C1_Efficiency ==
    \A i \in DOMAIN obs :
        HasShapley(obs[i]) =>
            AttributionSum(obs[i]) = Factorial(Len(query)) * FullCoalitionValue(obs[i])

\* an observation attributed under four labelings with unequal attributions
\* and a positive full-coalition value
C1_Witness ==
    \E i \in DOMAIN obs :
        /\ HasShapley(obs[i])
        /\ Len(query) = 4
        /\ FullCoalitionValue(obs[i]) > 0
        /\ \E a, b \in Range(query) : obs[i].shapley[a] < obs[i].shapley[b]
        /\ \E a \in Range(query) : obs[i].shapley[a] = 0

\* position of a labeling in the query list
QueryIndex(key) == CHOOSE k \in DOMAIN query : query[k] = key

\* count / SizeIndex size of the cluster of row r under labeling k, compared
\* by cross-multiplication: ratio(r, j) <= ratio(r, k)
RatioLeq(r, j, k) ==
    ClusterCount(obs, query[j], r.cl[query[j]]) * size_dict[query[k]][r.cl[query[k]]]
        <= ClusterCount(obs, query[k], r.cl[query[k]]) * size_dict[query[j]][r.cl[query[j]]]

RawComposed(r) ==
    /\ r.final_annotation \in Range(query)
    /\ r.raw = r.final_annotation \o <<"@">> \o r.cl[r.final_annotation]
    /\ Split(r.raw) = <<r.final_annotation, r.cl[r.final_annotation]>>

\* C3: once compute_shapley has returned, every observation's final_annotation
\* is a query labeling and its raw label is final_annotation + '@' + its
\* cluster under that labeling; the chunks the run_assign workers return on
\* the parallel path satisfy the same.
C3_RawLabel ==
    /\ (pc = "idle" /\ Attributed) => \A i \in DOMAIN obs : RawComposed(obs[i])
    /\ pc = "assign" =>
          \A t \in DOMAIN results :
              results[t].done => \A i \in DOMAIN results[t].val : RawComposed(results[t].val[i])

\* compute_shapley has returned and two observations were won by different
\* labelings, one of them in a cluster named differently under the two
C3_Witness ==
    /\ pc = "idle"
    /\ last = "compute_shapley"
    /\ \E i, j \in DOMAIN obs :
          /\ obs[i].raw # NA /\ obs[j].raw # NA
          /\ obs[i].final_annotation = query[1]
          /\ obs[j].final_annotation = query[2]
          /\ obs[j].cl[query[1]] # obs[j].cl[query[2]]

-----------------------------------------------------------------------------
(* Order of the observations *)

\* the rows are the observations 0 .. N-1 of the input table, in input order
InputOrder(table) == \A i \in DOMAIN table : table[i].id = RowStart(table, i)

\* the layer of metric vectors of row r, one per labeling
RowLayer(r) == [k \in DOMAIN query |-> MetricVector(r, query[k])]

\* the attribution columns of row r are those computed from r's own metrics
OwnAttribution(r) ==
    /\ \A k \in DOMAIN query : r.shapley[query[k]] = shapley_value(k, RowLayer(r))
    /\ r.final_annotation =
          which_to_take([k \in DOMAIN query |-> shapley_value(k, RowLayer(r))], query,
                        reference, [k \in DOMAIN query |-> r.cl[query[k]]], size_dict)

\* the pruned labels run_reference_pruning can give the observation of row r
\* within its reference group, one for each label that can come first among
\* the most abundant
OwnPruned(table, r) ==
    LET group == <<r.cl[reference],
                   SelectSeq(table, LAMBDA x : x.cl[reference] = r.cl[reference])>>
        out(m) == run_reference_pruning(group, reference, size_dict, table, m)
    IN {out(m)[CHOOSE j \in DOMAIN group[2] : group[2][j].id = r.id].pruned :
           m \in MostAbundant(MappedChunk(group, reference, size_dict, table))}

\* C4: whatever the number of chunks (1, 2 or N) and the order in which the
\* workers finish, the table written back by compute_shapley,
\* penalize_artifact and reference_pruning lists the observations in input
\* order, and final_annotation, the shapley columns, raw and pruned of a row
\* are the values computed for that row's observation.
C4_OrderPreserved ==
    pc = "idle" =>
        /\ Shape0(obs) = NObs
        /\ InputOrder(obs)
        /\ \A i \in DOMAIN obs :
              /\ HasShapley(obs[i]) => OwnAttribution(obs[i]) /\ RawComposed(obs[i])
              /\ last = "pruning_reference" => obs[i].pruned \in OwnPruned(obs, obs[i])

\* reference pruning has returned on a table whose reference groups interleave
\* (clusters 0, 1, 0 in input order) and whose observations differ in winner
C4_Witness ==
    /\ pc = "idle"
    /\ last = "pruning_reference"
    /\ invalid # EmptyBag
    /\ \E i \in DOMAIN obs : i + 2 \in DOMAIN obs
          /\ obs[i].cl[reference] = obs[i + 2].cl[reference]
          /\ obs[i].cl[reference] # obs[i + 1].cl[reference]
    /\ \E i, j \in DOMAIN obs : obs[i].final_annotation # obs[j].final_annotation

-----------------------------------------------------------------------------
(* Pruning *)

ReassignCalled == pc = "idle" /\ last \in {"pruning_reassign", "reassign_pruning"}
ReferenceFinished == pc = "idle" /\ last = "pruning_reference" /\ err = ""

RawClusters(table) == {table[i].raw : i \in DOMAIN table}

\* C5: the invalid list a reassign pruning call returns is exactly the
\* deduplicated union of the invalid list before the call with the raw clusters
\* that have fewer observations than the floor (10 below 50000 observations,
\* else 30) or fewer than 5% of their size in the size index.
C5_InvalidMarking ==
    [][(PruningReassign \/ ReassignPruningDirect) =>
          /\ err' = ""
          /\ invalid' = reassign_marking(invalid, obs, size_dict)]_vars

\* C6: once a reassign pruning call has returned, every observation whose raw
\* cluster is not invalid has its raw label as pruned label, and every
\* observation whose raw cluster is invalid has the label of a valid raw
\* cluster.
C6_ReassignLabels ==
    ReassignCalled =>
        /\ err = ""
        /\ HasPruned(obs)
        /\ \A i \in DOMAIN obs :
              IF BagIn(obs[i].raw, invalid)
              THEN obs[i].pruned \in RawClusters(obs) /\ ~BagIn(obs[i].pruned, invalid)
              ELSE obs[i].pruned = obs[i].raw

\* the label the decision policy gives the observations of row r: rules on
\* the raw cluster's count within r's reference group, tried in order
GroupTotal(table, g) ==
    SumSeq([i \in DOMAIN table |-> IF table[i].cl[reference] = g THEN table[i].n ELSE 0])
RawCountInGroup(table, g, label) ==
    SumSeq([i \in DOMAIN table |->
               IF table[i].cl[reference] = g /\ table[i].raw = label
               THEN table[i].n ELSE 0])
Floor(table) == IF Shape0(table) < 50000 THEN 10 ELSE 30
FallbackLabel(r) == AtJoin(reference, r.cl[reference])
PolicyKeeps(table, r) ==
    LET g == r.cl[reference]
        count == RawCountInGroup(table, g, r.raw)
        size == size_dict[Split(r.raw)[1]][Split(r.raw)[2]]
    IN IF 10 * count >= 6 * size THEN TRUE
       ELSE IF 100 * count >= 5 * GroupTotal(table, g) THEN TRUE
       ELSE count > Floor(table)
PolicyLabel(table, r) == IF PolicyKeeps(table, r) THEN r.raw ELSE FallbackLabel(r)
PolicyLabels(table) == [i \in DOMAIN table |-> PolicyLabel(table, table[i])]
PrunedLabels(table) == [i \in DOMAIN table |-> table[i].pruned]
\* the observations of group g to which labels gives the label
LabelCount(table, labels, g, label) ==
    SumSeq([i \in DOMAIN table |->
               IF table[i].cl[reference] = g /\ labels[i] = label
               THEN table[i].n ELSE 0])

\* C7: reference pruning decides each raw cluster of a reference group by the
\* first matching rule: kept when its count is at least 60% of its size index
\* size, else kept when at least 5% of the group, else kept when above the
\* floor, else folded into reference@group; nothing else enters the decision.
\* Every observation whose policy label is shared by a second observation of
\* its group carries exactly that label after reference pruning.
C7_DecisionPolicy ==
    ReferenceFinished =>
        LET policy == PolicyLabels(obs)
        IN \A i \in DOMAIN obs :
               LabelCount(obs, policy, obs[i].cl[reference], policy[i]) >= 2
                   => obs[i].pruned = policy[i]

\* an observation folded into the fallback label because all three rules failed
C7_Witness ==
    /\ ReferenceFinished
    /\ \E i \in DOMAIN obs :
          /\ ~PolicyKeeps(obs, obs[i])
          /\ obs[i].raw # FallbackLabel(obs[i])
          /\ obs[i].pruned = FallbackLabel(obs[i])

\* the labels with the largest count in group g
MostPopulous(table, labels, g) ==
    LET rows == {i \in DOMAIN table : table[i].cl[reference] = g}
        count == [i \in rows |-> LabelCount(table, labels, g, labels[i])]
        top == SetMax({count[i] : i \in rows})
    IN {labels[i] : i \in {j \in rows : count[j] = top}}

C9_ReassignNoOp ==
    (/\ ReassignCalled
     /\ BagToSet(reassign_marking(invalid, obs, size_dict)) \cap RawClusters(obs) = {})
        => /\ err = ""
           /\ HasPruned(obs)
           /\ \A i \in DOMAIN obs : obs[i].pruned = obs[i].raw

\* the floors compared
FloorChoices == {0, 1, 10, 11, 30}

\* the raw clusters of each reference group that the mapping sends to another
\* label when the floor is abs_thresh
FoldedAt(table, abs_thresh) ==
    LET chunks == GroupBy(table, reference)
        mapping == [g \in DOMAIN chunks |->
                       RefMappingAt(chunks[g], reference, size_dict, abs_thresh)]
    IN UNION {{<<chunks[g][1], c>> : c \in {d \in DOMAIN mapping[g] : mapping[g][d] # d}} :
              g \in DOMAIN chunks}

\* C10: on one reference-pruned table, the raw clusters folded into the fallback label at a
\* floor are among those folded at any larger floor.
C10_FloorMonotone ==
    ReferenceFinished =>
        LET folded == [f \in FloorChoices |-> FoldedAt(obs, f)]
        IN \A f1 \in FloorChoices : \A f2 \in FloorChoices :
               f1 <= f2 => folded[f1] \subseteq folded[f2]

\* a reference-pruned table on which the larger floor folds strictly more
C10_Witness ==
    /\ ReferenceFinished
    /\ FoldedAt(obs, 10) # FoldedAt(obs, 30)
    /\ FoldedAt(obs, 10) = FoldedAt(obs, AbsThresh(Shape0(obs)))

\* C11: after a reassign pruning call every raw cluster with fewer
\* observations than the floor is in the invalid list, and no observation
\* carries a pruned label that is in the invalid list or that is a singleton
\* of its reference group.
C11_BelowFloorInvalid ==
    ReassignCalled =>
        /\ err = ""
        /\ \A c \in RawClusters(obs) :
              ValueCounts(obs, "raw")[c] < Floor(obs) => BagIn(c, invalid)
        /\ HasPruned(obs)
        /\ \A i \in DOMAIN obs :
              /\ ~BagIn(obs[i].pruned, invalid)
              /\ LabelCount(obs, PrunedLabels(obs), obs[i].cl[reference], obs[i].pruned) # 1

-----------------------------------------------------------------------------
(* The invalid list across operations *)

\* clear_invalid has been called on the object
Cleared == "invaild" \in attrs

\* C12: whatever insertions were made (add_to_invalid,
\* add_to_invalid_by_win_fraction, penalize_artifact in mode 'void' or
\* 'cellcycle', pruning with method 'reassign'), the invalid list holds each
\* entry at most once.
C12_NoDuplicates ==
    \A x \in BagToSet(invalid) : CopiesIn(x, invalid) <= 1

\* C13: as long as clear_invalid has not been called, no operation removes an
\* entry from the invalid list.
C13_Accumulates ==
    [][~Cleared' => BagToSet(invalid) \subseteq BagToSet(invalid')]_vars

\* two entries inserted by different calls survive attribution and a pruning
\* call
C13_Witness ==
    /\ ~Cleared
    /\ Cardinality(BagToSet(invalid)) >= 2
    /\ Attributed
    /\ last = "pruning_reassign"

\* C14: right after clear_invalid the invalid list exists and is empty, and no
\* later operation fails to find it.
C14_ClearLeavesEmptyList ==
    /\ (last = "clear_invalid" /\ err = "") => "invalid" \in attrs /\ invalid = EmptyBag
    /\ Cleared => err # "AttributeError"

-----------------------------------------------------------------------------
(* Failures *)

\* every raw cluster is below a threshold or already in the invalid list
AllRawInvalid ==
    RawClusters(obs) \subseteq BagToSet(reassign_marking(invalid, obs, size_dict))

\* C15: a reassign pruning call made when every raw cluster is invalid ends
\* with an exception raised to the caller and leaves the table (the pruned
\* column with it) and the invalid list as they were.
C15_NoValidClusterAborts ==
    [][((PruningReassign \/ ReassignPruningDirect) /\ AllRawInvalid) =>
          /\ err' # ""
          /\ obs' = obs
          /\ invalid' = invalid]_vars

\* a reassign call failed on a table with every raw cluster invalid and with
\* a pruned column from an earlier reference pruning
C15_Witness ==
    /\ ReassignCalled
    /\ err # ""
    /\ AllRawInvalid
    /\ HasPruned(obs)

\* the chunk has no original-position column
ChunkLacksOri(chunk) == \E j \in DOMAIN chunk : chunk[j].ori = -1

\* C16: when a worker's chunk lacks the original-position column, the
\* controlling thread does not concatenate: it signals an error and the
\* table is not overwritten.
C16_RefusesUnorderedChunks ==
    [][((CollectAssign \/ CollectPenalize \/ CollectReference)
          /\ \E i \in DOMAIN results : ChunkLacksOri(results[i].val)) =>
          /\ err' # ""
          /\ obs' = obs]_vars

\* every score of row r is 0 under every labeling
AllZero(r) ==
    \A k \in DOMAIN query : \A m \in DOMAIN ScoreColname : MetricVector(r, query[k])[m] = 0

-----------------------------------------------------------------------------
(* Sequential and parallel paths *)

\* C18: compute_shapley(parallel=True) writes the final_annotation, shapley,
\* raw and prefixed columns that compute_shapley(parallel=False) writes on the
\* same table, whatever the number of chunks and the order in which the
\* workers finish: the table the parallel call is about to write back, and
\* the table either call has left, equal the sequential result.
C18_SequentialAttribution ==
    /\ (pc = "assign" /\ AllDone) =>
          prefixing(GatherTables(results), reference, "raw") = SequentialAttribution(obs)
    /\ (pc = "idle" /\ last = "compute_shapley") => obs = SequentialAttribution(obs)

\* two chunks with different winners, both finished, about to be collected
C18_Witness ==
    /\ pc = "assign"
    /\ AllDone
    /\ Len(tasks) = 2
    /\ \E i, j \in DOMAIN obs : obs[i].final_annotation # obs[j].final_annotation

\* C19: pruning(parallel=False) returns with the pruned column that
\* pruning(parallel=True) with method 'reference' computes on the same table.
C19_SequentialPruning ==
    (pc = "idle" /\ last = "pruning_sequential") =>
        /\ err = ""
        /\ HasPruned(obs)
        /\ \A i \in DOMAIN obs : obs[i].pruned \in OwnPruned(obs, obs[i])

\* C20: a scorer that fails on a labeling is absorbed: compute_metrics returns
\* without an exception, every labeling has its score entry, and each metric
\* column holds the score the scorer returned for the observation's cluster,
\* 0 where it returned none
C20_ScorerFailureAbsorbed ==
    (pc = "idle" /\ last = "compute_metrics") =>
        /\ err = ""
        /\ \A key \in Range(query) :
              /\ key \in DOMAIN score
              /\ \A i \in DOMAIN obs : \A m \in Range(total_metrics) :
                    obs[i].met[key][m] =
                        IF obs[i].cl[key] \in DOMAIN score[key][m]
                        THEN score[key][m][obs[i].cl[key]]
                        ELSE 0

\* the pruning calls that have returned
PruningReturned ==
    /\ pc = "idle"
    /\ err = ""
    /\ last \in {"pruning_reference", "pruning_reassign", "pruning_sequential"}

\* the (reference cluster, pruned label) dispositions of the table
Dispositions(table, ref) ==
    {<<AtJoin(ref, table[i].cl[ref]), table[i].pruned>> : i \in DOMAIN table}

\* C21: after a pruning call the mapping file has the three-field header and
\* every data row has exactly three fields, one row per distinct (reference
\* cluster, pruned label) pair of the table
C21_MappingFileTriples ==
    PruningReturned =>
        /\ celltype.header = <<"reference", "cell_cluster", "choice">>
        /\ \A r \in DOMAIN celltype.rows : Len(celltype.rows[r]) = Len(celltype.header)
        /\ {SubSeq(celltype.rows[r], 1, 2) : r \in DOMAIN celltype.rows}
               = Dispositions(obs, reference)
        /\ Len(celltype.rows) = Cardinality(Dispositions(obs, reference))

\* C22: every attribution compute_shapley writes is non-negative, whatever
\* metric table the calls before it have left
C22_NonNegativeAttribution ==
    \A i \in DOMAIN obs :
        HasShapley(obs[i]) => \A k \in DOMAIN query : obs[i].shapley[query[k]] >= 0

\* C23: while a parallel stage is open, the table and the score slot are not
\* written and the stage is not left (no result is read) unless every work
\* unit handed to the pool is done
C23_JoinBarrier ==
    [][(pc # "idle" /\ (obs' # obs \/ score' # score \/ pc' # pc))
          => \A i \in DOMAIN results : results[i].done]_vars

\* two work units of the attribution stage, one done and one running, and
\* no attribution in the table yet
C23_Witness ==
    /\ pc = "shapley"
    /\ \E i, j \in DOMAIN results : results[i].done /\ ~results[j].done
    /\ \A i \in DOMAIN obs : obs[i].shapley = NA

\* the stages whose work units are sets of observations
ChunkedStages == {"shapley", "assign", "penalize", "reference"}

\* the rows of work unit i
TaskRows(i) == IF pc = "reference" THEN tasks[i][2] ELSE tasks[i].obs

\* the (work unit, row) positions that hold the observation of table row r
UnitsOf(r) ==
    {p \in UNION {{<<i, j>> : j \in DOMAIN TaskRows(i)} : i \in DOMAIN tasks} :
        TaskRows(p[1])[p[2]].id = obs[r].id}

\* every observation of the table is in exactly one work unit, and the work
\* units hold nothing else
DisjointCover ==
    /\ \A r \in DOMAIN obs : Cardinality(UnitsOf(r)) = 1
    /\ SumSeq([i \in DOMAIN tasks |-> Len(TaskRows(i))]) = Len(obs)

\* C24: in an observation-chunked stage each observation is in exactly one
\* work unit, and the table changes only in the step of the controlling
\* thread that ends the stage, once every work unit is done
C24_DisjointSlices ==
    [][/\ pc' \in ChunkedStages => DisjointCover'
       /\ (pc \in ChunkedStages /\ obs' # obs) => (pc' # pc /\ AllDone)]_vars

\* reference pruning with two work units whose observations interleave in
\* the table (clusters 0, 1, 0), one unit done
C24_Witness ==
    /\ pc = "reference"
    /\ Len(tasks) = 2
    /\ Len(tasks[1][2]) = 2
    /\ tasks[1][2][2].id = tasks[2][2][1].id + 1
    /\ \E i \in DOMAIN results : results[i].done

\* the work units of the open stage that hold something to do
NonEmptyUnits ==
    {i \in DOMAIN tasks : pc = "metrics" \/ TaskRows(i) # <<>>}

\* C25: while a parallel stage is open its pool has at least one process and
\* no more processes than there are non-empty work units
C25_BoundedPool ==
    pc # "idle" => (pool >= 1 /\ pool <= Cardinality(NonEmptyUnits))

\* C26: no call changes an entry of size_dict, and it keeps counting the
\* clusters of the labelings, whatever the pruned column holds
C26_SizeIndexSnapshot ==
    [][size_dict' = size_dict /\ size_dict' = get_size(obs', query')]_vars

\* clear_invalid has returned after a pruning that moved an observation away
\* from its raw cluster
C26_Witness ==
    /\ last = "clear_invalid"
    /\ err = ""
    /\ HasPruned(obs)
    /\ \E i \in DOMAIN obs : obs[i].pruned # obs[i].raw

Occurrences(list, name) == Cardinality({k \in DOMAIN list : list[k] = name})

\* C28: every name of total_metrics occurs in it once, the built-in list
\* holds the four built-in names only, and the score columns of a metric
\* vector are as many as there are registered metrics other than doublet
C28_RegistryNoDuplicates ==
    /\ \A name \in Range(total_metrics) : Occurrences(total_metrics, name) = 1
    /\ self_metrics = BuiltinMetrics
    /\ Len(ScoreColname) = Cardinality(Range(total_metrics) \ {"doublet"})

\* the rows of `after` are the observations of `before`, each once and in
\* the same blocks, and each has a pruned label
Conserved(before, after) ==
    /\ Len(after) = Len(before)
    /\ \A i \in DOMAIN before :
          /\ after[i].id = before[i].id
          /\ after[i].n = before[i].n
          /\ after[i].cl = before[i].cl
          /\ after[i].pruned # NA

\* C29: a reference pruning and a reassign pruning both return, and the
\* table they leave holds exactly the observations of the table they were
\* given, each once and each with a pruned label
C29_ObservationConservation ==
    [][(CollectReference \/ PruningReassign \/ ReassignPruningDirect)
          => (err' = "" /\ Conserved(obs, obs'))]_vars

\* the raw labels carried by the observations of the reference group of row r
GroupRawLabels(table, r) ==
    {table[j].raw : j \in {k \in DOMAIN table : table[k].cl[reference] = r.cl[reference]}}

\* C30: after reference pruning the pruned label of an observation is a raw
\* label of its own reference group or the fallback label of its own
\* reference cluster
C30_LabelDomain ==
    ReferenceFinished =>
        \A i \in DOMAIN obs :
            obs[i].pruned \in GroupRawLabels(obs, obs[i]) \cup {FallbackLabel(obs[i])}

\* reference pruning has returned on a table with two reference groups; in
\* one of them an observation was folded from its raw label into the
\* fallback label of the group
C30_Witness ==
    /\ ReferenceFinished
    /\ \E i, j \in DOMAIN obs :
          /\ obs[i].cl[reference] # obs[j].cl[reference]
          /\ obs[j].pruned = FallbackLabel(obs[j])
          /\ obs[j].raw # FallbackLabel(obs[j])


=============================================================================
